---------------------------- MODULE Spec2Model ----------------------------
(***************************************************************************)
(* A model of the hex viewer's session state (src/app.rs), of the event    *)
(* handler that drives it (src/event.rs) and of the event loop that calls  *)
(* the handler (src/main.rs, run_app).                                     *)
(*                                                                         *)
(* Characters are their code points and bytes are numbers 0..255.  A       *)
(* String is a sequence of code points, a Vec<u8> a sequence of bytes, a   *)
(* Range<usize> the record [start, end].  Sequences are 1-based here and   *)
(* 0-based in the code: byte offset o of a buffer is element o + 1.        *)
(***************************************************************************)
EXTENDS Integers, Sequences, FiniteSets, TLC

(***************************************************************************)
(* Bounds of the model.                                                    *)
(***************************************************************************)
\* The longest text typed freely into the input buffer.
MaxInput == 3
\* Scroll events are explored on rows at most this far from the first or
\* the last row of the file (only the large file has rows further away).
MaxRow == 3
\* The longest buffer and the longest query of the searches checked on
\* their own (SearchSpec).
MaxData == 5
MaxQuery == 4
\* The largest file size and the widest row of the sessions in which only
\* the viewport is exercised (RowsSpec).
MaxSize == 12
MaxWidth == 4
\* The tallest content pane drawn (DrawSpec).
MaxHeight == 3
\* The longest byte sequence searched for both as text and as hex digits
\* (HexSpec).
MaxHexBytes == 2

(***************************************************************************)
(* Program constants.                                                      *)
(***************************************************************************)
\* app.rs:53  let threshold = 10 * 1024 * 1024;
threshold == 10 * 1024 * 1024
\* usize is 64 bits wide on the targets the viewer is built for, so a usize
\* holds at most 16 significant hexadecimal digits (app.rs:173).
UsizeHexDigits == 16
\* Offsets at or above OffsetCap are represented by OffsetCap.  Every file
\* of the model is shorter than OffsetCap bytes, so such an offset lies past
\* the last row in the code and in the model alike.
OffsetCap == 2 ^ 26

Min(a, b) == IF a < b THEN a ELSE b

(***************************************************************************)
(* Strings and bytes.                                                      *)
(***************************************************************************)
RECURSIVE Concat(_)
\* The concatenation of a sequence of sequences.
Concat(ss) == IF ss = << >> THEN << >> ELSE Head(ss) \o Concat(Tail(ss))

\* The UTF-8 encoding of one character (code points below 0x800).
Utf8(c) == IF c < 128 THEN << c >> ELSE << 192 + (c \div 64), 128 + (c % 64) >>

\* str::as_bytes: the UTF-8 bytes of a String.
as_bytes(s) == Concat([i \in 1 .. Len(s) |-> Utf8(s[i])])

\* String::replace(" ", ""): the string without its spaces.
replace_spaces(s) == SelectSeq(s, LAMBDA c : c # 32)

\* A digit value that forgets the 10 of the upper-case digits 'A'..'F'.
hex_val_upper_low(c) ==
    IF c >= 48 /\ c <= 57 THEN c - 48
    ELSE IF c >= 97 /\ c <= 102 THEN c - 97 + 10
    ELSE IF c >= 65 /\ c <= 70 THEN c - 65
    ELSE -1

\* hex::decode's val: the value of one hexadecimal digit, -1 for any other
\* byte.
hex_val(c) ==
    IF c >= 48 /\ c <= 57 THEN c - 48
    ELSE IF c >= 97 /\ c <= 102 THEN c - 97 + 10
    ELSE IF c >= 65 /\ c <= 70 THEN c - 65 + 10
    ELSE -1

\* hex::decode(&query): Err for an odd number of bytes or a byte that is no
\* hexadecimal digit, else one byte per pair of digits.
hex_decode(query) ==
    LET hex == as_bytes(query) IN
    IF Len(hex) % 2 # 0 THEN [ok |-> FALSE, bytes |-> << >>]
    ELSE IF \E i \in 1 .. Len(hex) : hex_val(hex[i]) = -1
         THEN [ok |-> FALSE, bytes |-> << >>]
    ELSE [ok |-> TRUE,
          bytes |-> [i \in 1 .. (Len(hex) \div 2) |->
                        hex_val(hex[2 * i - 1]) * 16 + hex_val(hex[2 * i])]]

\* char::to_digit(16) as usize::from_str_radix uses it: -1 for no digit.
to_digit(c) == hex_val(c)

RECURSIVE StripZeros(_)
StripZeros(ds) ==
    IF ds # << >> /\ Head(ds) = 48 THEN StripZeros(Tail(ds)) ELSE ds

RECURSIVE DigitsValue(_, _)
\* The value of a digit string, accumulated left to right as the parser
\* does (result * 16 + digit), held at OffsetCap.
DigitsValue(ds, acc) ==
    IF ds = << >> THEN acc
    ELSE DigitsValue(Tail(ds), Min(acc * 16 + to_digit(Head(ds)), OffsetCap))

\* usize::from_str_radix(&input_buffer, 16): Err for the empty string, for a
\* lone sign, for a character that is no hexadecimal digit (a '-' included:
\* usize is unsigned) and for a value that overflows usize; one leading '+'
\* is accepted.
from_str_radix(src) ==
    LET digits == IF Len(src) > 0 /\ Head(src) = 43 THEN Tail(src) ELSE src IN
    IF Len(src) = 0 THEN [ok |-> FALSE, value |-> 0]
    ELSE IF Len(digits) = 0 THEN [ok |-> FALSE, value |-> 0]
    ELSE IF \E i \in 1 .. Len(digits) : to_digit(digits[i]) = -1
         THEN [ok |-> FALSE, value |-> 0]
    ELSE IF Len(StripZeros(digits)) > UsizeHexDigits
         THEN [ok |-> FALSE, value |-> 0]
    ELSE [ok |-> TRUE, value |-> DigitsValue(digits, 0)]

(***************************************************************************)
(* Searching.                                                              *)
(***************************************************************************)
\* Whether needle occurs in hay at 0-based index i.
OccursAt(hay, needle, i) ==
    /\ i + Len(needle) <= Len(hay)
    /\ \A k \in 1 .. Len(needle) : hay[i + k] = needle[k]

\* twoway::find_bytes(hay, needle): the index of the first occurrence of
\* needle in hay, -1 for None.
find_bytes(hay, needle) ==
    LET hits == {i \in 0 .. Len(hay) : OccursAt(hay, needle, i)} IN
    IF hits = {} THEN -1
    ELSE CHOOSE i \in hits : \A j \in hits : i <= j

\* A scan that resumes one byte after a match's start: overlapping matches.
next_pos_overlapping(absolute_start, absolute_end) == absolute_start + 1

\* Where the scan resumes after a match (app.rs:129, 152: pos = absolute_end).
next_pos(absolute_start, absolute_end) == absolute_end

RECURSIVE scan_stops_early(_, _, _, _)
\* A scan loop whose condition is pos + len < data.len(): it gives up when
\* only the pattern's length is left of the buffer.
scan_stops_early(data, query_bytes, pos, results) ==
    IF pos + Len(query_bytes) < Len(data)
    THEN LET idx == find_bytes(SubSeq(data, pos + 1, Len(data)), query_bytes) IN
         IF idx # -1
         THEN LET absolute_start == pos + idx
                  absolute_end == absolute_start + Len(query_bytes)
              IN scan_stops_early(data, query_bytes, absolute_end,
                      Append(results,
                             [start |-> absolute_start, end |-> absolute_end]))
         ELSE results
    ELSE results

RECURSIVE scan(_, _, _, _)
\* The scan loop of perform_search (app.rs:123-133 and 146-156): results is the
\* vector pushed so far.
scan(data, query_bytes, pos, results) ==
    IF pos + Len(query_bytes) <= Len(data)
    THEN LET idx == find_bytes(SubSeq(data, pos + 1, Len(data)), query_bytes) IN
         IF idx # -1
         THEN LET absolute_start == pos + idx
                  absolute_end == absolute_start + Len(query_bytes)
              IN scan(data, query_bytes, next_pos(absolute_start, absolute_end),
                      Append(results,
                             [start |-> absolute_start, end |-> absolute_end]))
         ELSE results
    ELSE results

(***************************************************************************)
(* The files of the model.  A file is its leading bytes (head) and its     *)
(* size; the bytes after the head are zero.                                *)
(***************************************************************************)
\* Files read into memory: the empty file and the five bytes "AAA", 0x11,
\* "1".
EmptyFile == [head |-> << >>, size |-> 0]
SmallFile == [head |-> << 65, 65, 65, 17, 49 >>, size |-> 5]

\* A file one byte over the lazy-loading threshold, beginning "AA".
LargeFile == [head |-> << 65, 65 >>, size |-> threshold + 1]

Files == {EmptyFile, SmallFile, LargeFile}

\* The byte at 0-based offset o of file f.
FileByte(f, o) == IF o < Len(f.head) THEN f.head[o + 1] ELSE 0

\* The whole content of file f, as read_to_end returns it (generic.rs:12-13).
FileBytes(f) == [i \in 1 .. f.size |-> FileByte(f, i - 1)]

\* The sessions of the model: the file viewed and the row width given at
\* startup (main.rs:28-32; 16 is the default).
Sessions ==
    { [file |-> EmptyFile, bytes_per_line |-> 16],
      [file |-> SmallFile, bytes_per_line |-> 2],
      [file |-> LargeFile, bytes_per_line |-> 16] }

\* The keys typed into the input buffer: 'A', '1', ' ' and '+'.
Keys == {65, 49, 32, 43}

\* Past MaxInput characters the typed text only grows as a run of one of
\* these digits ('1'), up to one digit more than a usize holds.
LongKeys == {49}

(***************************************************************************)
(* The messages of the message slot (App::message).                        *)
(***************************************************************************)
None == "None"
MsgEmptySearch == "Search query cannot be empty."
MsgEmptyHex == "Hex search query cannot be empty."
MsgInvalidHex == "Invalid hexadecimal input for search."
MsgNoMatches == "No matches found for the search query."
MsgInvalidOffset == "Invalid hexadecimal offset input."

(***************************************************************************)
(* The session state: the fields of App (app.rs:31-44) and the file.       *)
(***************************************************************************)
VARIABLES
    file,            \* the inspected file on disk
    running,
    parsed_file,     \* [kind |-> "Generic", data] or [kind |-> "Lazy"]
    scroll_offset,
    bytes_per_line,
    mode,            \* "Normal", "Search", "Goto", "Help"
    input_buffer,
    search_results,
    search_type,     \* "Ascii", "Hex"
    file_size,
    theme,           \* "Light", "Dark"
    message,
    pc,              \* where main (main.rs:39-98) stands
    terminal,        \* [raw_mode, alternate_screen, mouse_capture]
    display          \* the content pane last drawn, and stderr

vars == << file, running, parsed_file, scroll_offset, bytes_per_line, mode,
           input_buffer, search_results, search_type, file_size, theme,
           message, pc, terminal, display >>

(***************************************************************************)
(* App's methods.                                                          *)
(***************************************************************************)
\* usize::saturating_sub
saturating_sub(a, b) == IF a >= b THEN a - b ELSE 0

\* A max_scroll_offset that rounds down: one row too many when the size is
\* a multiple of the row width.
max_scroll_offset_floor(fsize, bpl) == fsize \div bpl

\* App::max_scroll_offset (app.rs:92-99)
max_scroll_offset(fsize, bpl) ==
    LET total_lines == (fsize + bpl - 1) \div bpl IN
    IF total_lines = 0 THEN 0 ELSE saturating_sub(total_lines, 1)

\* A scroll_up without its guard.
scroll_up_unguarded(offset) == offset - 1

\* App::scroll_up (app.rs:78-82): the new scroll_offset.
scroll_up(offset) == IF offset > 0 THEN offset - 1 ELSE offset

\* A scroll_down without its guard.
scroll_down_unguarded(offset, fsize, bpl) == offset + 1

\* App::scroll_down (app.rs:85-89): the new scroll_offset.
scroll_down(offset, fsize, bpl) ==
    IF offset < max_scroll_offset(fsize, bpl) THEN offset + 1 ELSE offset

\* App::clamp_scroll_offset (app.rs:102-107): the new scroll_offset.
clamp_scroll_offset(offset, fsize, bpl) ==
    LET max_offset == max_scroll_offset(fsize, bpl) IN
    IF offset > max_offset THEN max_offset ELSE offset

\* ParsedFile::data (mod.rs:21-27)
data_of(pf) == IF pf.kind = "Generic" THEN pf.data ELSE << >>

\* A perform_search without its feedback.
no_feedback(results, msg) == msg

\* The feedback at the end of perform_search (app.rs:165-168): the new
\* message, given the results of the scan and the message so far.
no_match_feedback(results, msg) ==
    IF results = << >> THEN MsgNoMatches ELSE msg

\* A query preparation without the check for a hex query of spaces only.
query_bytes_unchecked(buffer, stype) ==
    IF Len(buffer) = 0
    THEN [scans |-> FALSE, bytes |-> << >>, message |-> MsgEmptySearch]
    ELSE IF stype = "Ascii"
    THEN [scans |-> TRUE, bytes |-> as_bytes(buffer), message |-> None]
    ELSE LET decoded == hex_decode(replace_spaces(buffer)) IN
         IF decoded.ok
         THEN [scans |-> TRUE, bytes |-> decoded.bytes, message |-> None]
         ELSE [scans |-> FALSE, bytes |-> << >>, message |-> MsgInvalidHex]

\* app.rs:112-119, 136-141, 158-160: what perform_search does before its scan
\* loop: whether the loop is entered, with which bytes, and the message of
\* the path that does not enter it.
query_bytes(buffer, stype) ==
    IF Len(buffer) = 0
    THEN [scans |-> FALSE, bytes |-> << >>, message |-> MsgEmptySearch]
    ELSE IF stype = "Ascii"
    THEN [scans |-> TRUE, bytes |-> as_bytes(buffer), message |-> None]
    ELSE LET query == replace_spaces(buffer)
             decoded == hex_decode(query)
         IN
         IF Len(query) = 0
         THEN [scans |-> FALSE, bytes |-> << >>, message |-> MsgEmptyHex]
         ELSE IF decoded.ok
         THEN [scans |-> TRUE, bytes |-> decoded.bytes, message |-> None]
         ELSE [scans |-> FALSE, bytes |-> << >>, message |-> MsgInvalidHex]

\* App::perform_search (app.rs:110-169): the new search_results and message.
\* The results held before the call are cleared first (app.rs:111) and
\* nothing else reads them.
perform_search(buffer, stype, pf, msg) ==
    LET q == query_bytes(buffer, stype) IN
    IF q.scans
    THEN LET results == scan(data_of(pf), q.bytes, 0, << >>) IN
         [search_results |-> results,
          message |-> no_match_feedback(results, msg)]
    ELSE IF q.message = MsgInvalidHex
    THEN [search_results |-> << >>,
          message |-> no_match_feedback(<< >>, MsgInvalidHex)]
    ELSE [search_results |-> << >>, message |-> q.message]

\* A jump that takes the byte offset for the row.
target_row_undivided(offset, fsize, bpl) ==
    Min(offset, max_scroll_offset(fsize, bpl))

\* The row jump_to_offset computes for a parsed offset (app.rs:174-176).
target_row(offset, fsize, bpl) ==
    LET max_offset == max_scroll_offset(fsize, bpl)
        target_line == offset \div bpl
    IN Min(target_line, max_offset)

\* App::jump_to_offset (app.rs:172-180): the new scroll_offset and message.
jump_to_offset(buffer, offset, fsize, bpl, msg) ==
    LET parsed == from_str_radix(buffer) IN
    IF parsed.ok
    THEN [scroll_offset |-> target_row(parsed.value, fsize, bpl),
          message |-> msg]
    ELSE [scroll_offset |-> offset, message |-> MsgInvalidOffset]

\* App::toggle_theme (app.rs:183-188)
toggle_theme(t) == IF t = "Light" THEN "Dark" ELSE "Light"

(***************************************************************************)
(* Session start: App::new (app.rs:48-75) for a file that can be read.     *)
(***************************************************************************)
\* A choice that reads a file of exactly the threshold lazily too.
new_parsed_file_inclusive(f) ==
    IF f.size >= threshold
    THEN [kind |-> "Lazy", data |-> << >>]
    ELSE [kind |-> "Generic", data |-> FileBytes(f)]

\* app.rs:55-59: the byte source chosen for a file.
new_parsed_file(f) ==
    IF f.size > threshold
    THEN [kind |-> "Lazy", data |-> << >>]
    ELSE [kind |-> "Generic", data |-> FileBytes(f)]

\* The terminal as main finds it, and as it is inside run_app: raw mode on,
\* the alternate screen entered and mouse events captured (main.rs:62-64).
Cooked ==
    [raw_mode |-> FALSE, alternate_screen |-> FALSE, mouse_capture |-> FALSE]

Entered ==
    [raw_mode |-> TRUE, alternate_screen |-> TRUE, mouse_capture |-> TRUE]

\* Nothing drawn yet, nothing written to stderr.
Blank ==
    [drawn |-> FALSE, height |-> 0, window |-> << >>, rows |-> << >>,
     stderr |-> None]

\* main has reached run_app (main.rs:81) and nothing is drawn yet.
InLoop == pc = "run_app" /\ terminal = Entered /\ display = Blank

Init ==
    /\ \E s \in Sessions : file = s.file /\ bytes_per_line = s.bytes_per_line
    /\ theme \in {"Light", "Dark"}
    /\ running = TRUE
    /\ parsed_file = new_parsed_file(file)
    /\ scroll_offset = 0
    /\ mode = "Normal"
    /\ input_buffer = << >>
    /\ search_results = << >>
    /\ search_type = "Ascii"
    /\ file_size = file.size
    /\ message = None
    /\ InLoop

(***************************************************************************)
(* The event loop (main.rs:104-114): while running, one event is handled   *)
(* by handle_event (event.rs:6-123) and, unless the handler asked to stop, *)
(* clamp_scroll_offset follows.  Each action below is one branch of the    *)
(* handler together with that clamp.                                       *)
(***************************************************************************)
\* What no event changes.
Fixed ==
    UNCHANGED << file, parsed_file, bytes_per_line, file_size, pc, terminal,
                 display >>

\* Whether scroll events are explored on this row.
Explored(row) ==
    \/ row <= MaxRow
    \/ row + MaxRow >= max_scroll_offset(file_size, bytes_per_line)

\* Whether the typed text may grow by character c within the bounds.
MayType(buffer, c) ==
    \/ Len(buffer) < MaxInput
    \/ /\ Len(buffer) < UsizeHexDigits + 1
       /\ c \in LongKeys
       /\ \A i \in 1 .. Len(buffer) : buffer[i] = c

\* scroll_offset after the clamp that follows a handled event.
Clamped(offset) == clamp_scroll_offset(offset, file_size, bytes_per_line)

\* main.rs:104-108: an event is handled while the session is running, in
\* the loop of run_app, after the draw of the iteration has returned.
Handling == running /\ pc = "run_app"

\* event.rs:10-13: 'q' in Normal mode; the loop breaks before the clamp.
KeyQuit ==
    /\ Handling /\ mode = "Normal"
    /\ running' = FALSE
    /\ UNCHANGED << scroll_offset, mode, input_buffer, search_results,
                    search_type, theme, message >>
    /\ Fixed

\* An Up handler that scrolls and leaves the message as it is.
ScrollUp_keeps_message ==
    /\ Handling /\ mode = "Normal"
    /\ Explored(scroll_offset)
    /\ scroll_offset' = Clamped(scroll_up(scroll_offset))
    /\ UNCHANGED << running, mode, input_buffer, search_results, search_type,
                    theme, message >>
    /\ Fixed

\* event.rs:14-18 and 57-61: Up, or the mouse wheel up, in Normal mode.
ScrollUp ==
    /\ Handling /\ mode = "Normal"
    /\ Explored(scroll_offset)
    /\ scroll_offset' = Clamped(scroll_up(scroll_offset))
    /\ message' = None
    /\ UNCHANGED << running, mode, input_buffer, search_results, search_type,
                    theme >>
    /\ Fixed

\* event.rs:19-23 and 62-66: Down, or the mouse wheel down, in Normal mode.
ScrollDown ==
    /\ Handling /\ mode = "Normal"
    /\ Explored(scroll_offset)
    /\ scroll_offset' =
           Clamped(scroll_down(scroll_offset, file_size, bytes_per_line))
    /\ message' = None
    /\ UNCHANGED << running, mode, input_buffer, search_results, search_type,
                    theme >>
    /\ Fixed

\* event.rs:24-30 ('/') and 37-43 ('x'): enter Search mode.
EnterSearchMode(stype) ==
    /\ Handling /\ mode = "Normal"
    /\ mode' = "Search"
    /\ search_type' = stype
    /\ input_buffer' = << >>
    /\ message' = None
    /\ scroll_offset' = Clamped(scroll_offset)
    /\ UNCHANGED << running, search_results, theme >>
    /\ Fixed

\* event.rs:31-36: ':' enters Goto mode.
EnterGotoMode ==
    /\ Handling /\ mode = "Normal"
    /\ mode' = "Goto"
    /\ input_buffer' = << >>
    /\ message' = None
    /\ scroll_offset' = Clamped(scroll_offset)
    /\ UNCHANGED << running, search_results, search_type, theme >>
    /\ Fixed

\* event.rs:44-48: 'h' enters Help mode.
EnterHelpMode ==
    /\ Handling /\ mode = "Normal"
    /\ mode' = "Help"
    /\ message' = None
    /\ scroll_offset' = Clamped(scroll_offset)
    /\ UNCHANGED << running, input_buffer, search_results, search_type,
                    theme >>
    /\ Fixed

\* event.rs:49-53: 't' toggles the theme.
ToggleTheme ==
    /\ Handling /\ mode = "Normal"
    /\ theme' = toggle_theme(theme)
    /\ message' = None
    /\ scroll_offset' = Clamped(scroll_offset)
    /\ UNCHANGED << running, mode, input_buffer, search_results, search_type >>
    /\ Fixed

\* An Enter in Search mode that also scrolls to the row of the first match.
SubmitSearch_scrolls_to_match ==
    /\ Handling /\ mode = "Search"
    /\ IF Len(input_buffer) = 0
       THEN UNCHANGED << search_results, message >>
       ELSE LET r == perform_search(input_buffer, search_type, parsed_file,
                                    message)
            IN /\ search_results' = r.search_results
               /\ message' = r.message
    /\ mode' = "Normal"
    /\ scroll_offset' =
          Clamped(IF search_results' = << >> THEN scroll_offset
                  ELSE search_results'[1].start \div bytes_per_line)
    /\ UNCHANGED << running, input_buffer, search_type, theme >>
    /\ Fixed

\* event.rs:73-81, 91: Enter in Search mode.
SubmitSearch ==
    /\ Handling /\ mode = "Search"
    /\ IF Len(input_buffer) = 0
       THEN UNCHANGED << search_results, message >>
       ELSE LET r == perform_search(input_buffer, search_type, parsed_file,
                                    message)
            IN /\ search_results' = r.search_results
               /\ message' = r.message
    /\ mode' = "Normal"
    /\ scroll_offset' = Clamped(scroll_offset)
    /\ UNCHANGED << running, input_buffer, search_type, theme >>
    /\ Fixed

\* An Enter in Goto mode that stays at the prompt when the text is no
\* offset.
SubmitGoto_stays_at_prompt ==
    /\ Handling /\ mode = "Goto"
    /\ IF Len(input_buffer) = 0
       THEN /\ scroll_offset' = Clamped(scroll_offset)
            /\ UNCHANGED message
       ELSE LET r == jump_to_offset(input_buffer, scroll_offset, file_size,
                                    bytes_per_line, message)
            IN /\ scroll_offset' = Clamped(r.scroll_offset)
               /\ message' = r.message
    /\ mode' = IF from_str_radix(input_buffer).ok THEN "Normal" ELSE "Goto"
    /\ UNCHANGED << running, input_buffer, search_results, search_type,
                    theme >>
    /\ Fixed

\* event.rs:73-74, 82-91: Enter in Goto mode.
SubmitGoto ==
    /\ Handling /\ mode = "Goto"
    /\ IF Len(input_buffer) = 0
       THEN /\ scroll_offset' = Clamped(scroll_offset)
            /\ UNCHANGED message
       ELSE LET r == jump_to_offset(input_buffer, scroll_offset, file_size,
                                    bytes_per_line, message)
            IN /\ scroll_offset' = Clamped(r.scroll_offset)
               /\ message' = r.message
    /\ mode' = "Normal"
    /\ UNCHANGED << running, input_buffer, search_results, search_type,
                    theme >>
    /\ Fixed

\* event.rs:94-97: a character typed in Search or Goto mode.
TypeChar(c) ==
    /\ Handling /\ mode \in {"Search", "Goto"}
    /\ MayType(input_buffer, c)
    /\ input_buffer' = Append(input_buffer, c)
    /\ scroll_offset' = Clamped(scroll_offset)
    /\ UNCHANGED << running, mode, search_results, search_type, theme,
                    message >>
    /\ Fixed

\* event.rs:98-101: Backspace in Search or Goto mode (String::pop).
Backspace ==
    /\ Handling /\ mode \in {"Search", "Goto"}
    /\ input_buffer' = IF Len(input_buffer) = 0 THEN input_buffer
                       ELSE SubSeq(input_buffer, 1, Len(input_buffer) - 1)
    /\ scroll_offset' = Clamped(scroll_offset)
    /\ UNCHANGED << running, mode, search_results, search_type, theme,
                    message >>
    /\ Fixed

\* event.rs:102-106 (Esc in Search or Goto mode) and 113-117 ('h' or Esc in
\* Help mode): back to Normal mode.
LeaveMode ==
    /\ Handling /\ mode \in {"Search", "Goto", "Help"}
    /\ mode' = "Normal"
    /\ message' = None
    /\ scroll_offset' = Clamped(scroll_offset)
    /\ UNCHANGED << running, input_buffer, search_results, search_type,
                    theme >>
    /\ Fixed

\* event.rs:54, 67, 69, 107, 109, 118, 120: any other event.
OtherEvent ==
    /\ Handling
    /\ scroll_offset' = Clamped(scroll_offset)
    /\ UNCHANGED << running, mode, input_buffer, search_results, search_type,
                    theme, message >>
    /\ Fixed

Next ==
    \/ KeyQuit
    \/ ScrollUp
    \/ ScrollDown
    \/ \E stype \in {"Ascii", "Hex"} : EnterSearchMode(stype)
    \/ EnterGotoMode
    \/ EnterHelpMode
    \/ ToggleTheme
    \/ SubmitSearch
    \/ SubmitGoto
    \/ \E c \in Keys : TypeChar(c)
    \/ Backspace
    \/ LeaveMode
    \/ OtherEvent

Spec == Init /\ [][Next]_vars

(***************************************************************************)
(* Searches on their own: a session on a file held in memory in which a    *)
(* query has been typed in Search mode, and the search is submitted.       *)
(***************************************************************************)
\* All sequences over S of length at most n.
SeqsUpTo(S, n) == UNION {[1 .. k -> S] : k \in 0 .. n}

\* The buffers searched: every buffer of 'A's and 'B's up to MaxData bytes,
\* and "AAAABAAAAB".
SearchBuffers ==
    SeqsUpTo({65, 66}, MaxData)
        \cup {<< 65, 65, 65, 65, 66, 65, 65, 65, 65, 66 >>}

\* The queries submitted: every text of 'A', 'B', '4' and '1' up to MaxQuery
\* characters.
SearchQueries == SeqsUpTo({65, 66, 52, 49}, MaxQuery)

InitSearch ==
    /\ \E d \in SearchBuffers : file = [head |-> d, size |-> Len(d)]
    /\ bytes_per_line = 16
    /\ theme = "Dark"
    /\ running = TRUE
    /\ parsed_file = new_parsed_file(file)
    /\ scroll_offset = 0
    /\ mode = "Search"
    /\ input_buffer \in SearchQueries
    /\ search_results = << >>
    /\ search_type \in {"Ascii", "Hex"}
    /\ file_size = file.size
    /\ message = None
    /\ InLoop

SearchSpec == InitSearch /\ [][SubmitSearch]_vars

(***************************************************************************)
(* The viewport on its own: sessions on a file of zero bytes of every size *)
(* up to MaxSize, with every row width up to MaxWidth, in which the view   *)
(* is scrolled.                                                            *)
(***************************************************************************)
InitRows ==
    /\ \E n \in 0 .. MaxSize : file = [head |-> << >>, size |-> n]
    /\ bytes_per_line \in 1 .. MaxWidth
    /\ theme = "Dark"
    /\ running = TRUE
    /\ parsed_file = new_parsed_file(file)
    /\ scroll_offset = 0
    /\ mode = "Normal"
    /\ input_buffer = << >>
    /\ search_results = << >>
    /\ search_type = "Ascii"
    /\ file_size = file.size
    /\ message = None
    /\ InLoop

RowsSpec == InitRows /\ [][ScrollUp \/ ScrollDown]_vars

(***************************************************************************)
(* Text and hex searches side by side: a session on a file held in memory  *)
(* in which a text has been typed after '/', or its hex digits after 'x',  *)
(* and the search is submitted.                                            *)
(***************************************************************************)
\* The hexadecimal digit of value v, in upper or in lower case.
HexDigit(v, upper) ==
    IF v < 10 THEN 48 + v ELSE IF upper THEN 65 + v - 10 ELSE 97 + v - 10

\* The values of the 2 * Len(bytes) hexadecimal digits of a byte sequence.
Nibbles(bytes) ==
    [i \in 1 .. 2 * Len(bytes) |->
        IF i % 2 = 1 THEN bytes[(i + 1) \div 2] \div 16
        ELSE bytes[i \div 2] % 16]

\* The digits of bytes, digit i in upper case when upper[i] and after a
\* space when spaced[i] (never before the first digit).
HexText(bytes, upper, spaced) ==
    Concat([i \in 1 .. 2 * Len(bytes) |->
              (IF i > 1 /\ spaced[i] THEN << 32 >> ELSE << >>)
                  \o << HexDigit(Nibbles(bytes)[i], upper[i]) >>])

\* Every hex encoding of bytes: each digit in either case, with or without
\* a space between neighbouring digits.
HexEncodings(bytes) ==
    LET D == 1 .. 2 * Len(bytes) IN
    {HexText(bytes, upper, spaced) :
        upper \in [D -> BOOLEAN], spaced \in [D -> BOOLEAN]}

\* The buffers searched: bytes 'A' (0x41) and 'J' (0x4a).
HexBuffers ==
    { << >>, << 65, 74 >>, << 74, 74, 74 >>, << 74, 65, 74, 65 >> }

\* The texts searched for: 'A's and 'J's up to MaxHexBytes characters.
HexQueries == SeqsUpTo({65, 74}, MaxHexBytes)

\* The text itself after '/'; after 'x' its digits in lower case with a
\* space before each but the first, or in upper case without spaces.
InitHex ==
    /\ \E d \in HexBuffers : file = [head |-> d, size |-> Len(d)]
    /\ bytes_per_line = 16
    /\ theme = "Dark"
    /\ running = TRUE
    /\ parsed_file = new_parsed_file(file)
    /\ scroll_offset = 0
    /\ mode = "Search"
    /\ \E b \in HexQueries :
          LET D == 1 .. 2 * Len(b) IN
          \/ search_type = "Ascii" /\ input_buffer = b
          \/ search_type = "Hex"
                /\ input_buffer = HexText(b, [i \in D |-> FALSE],
                                          [i \in D |-> TRUE])
          \/ search_type = "Hex"
                /\ input_buffer = HexText(b, [i \in D |-> TRUE],
                                          [i \in D |-> FALSE])
    /\ search_results = << >>
    /\ file_size = file.size
    /\ message = None
    /\ InLoop

HexSpec == InitHex /\ [][SubmitSearch]_vars

(***************************************************************************)
(* Drawing: run_app draws the interface before it waits for an event       *)
(* (main.rs:105).  The content pane fetches the visible window from the    *)
(* byte source and formats it (ui.rs:179-218).                             *)
(***************************************************************************)
\* utils.rs:83-100.  The outcome of the two system calls is the caller's
\* input io; a failure writes to stderr and gives no bytes.
read_file_chunk(f, offset, bpl, lines, io) ==
    LET seek_position == offset * bpl
        bytes_read == Min(bpl * lines, saturating_sub(f.size, seek_position))
    IN IF io = "seek_failed"
       THEN [buffer |-> << >>, stderr |-> "Error seeking to position"]
       ELSE IF io = "read_failed"
       THEN [buffer |-> << >>, stderr |-> "Error reading from file"]
       ELSE [buffer |-> [i \in 1 .. bytes_read |->
                            FileByte(f, seek_position + i - 1)],
             stderr |-> None]

\* A window that starts at the row index instead of the row's first byte.
get_chunk_unscaled(pf, f, offset, bpl, lines, io) ==
    IF pf.kind = "Generic"
    THEN LET start == offset
             end == Min(start + bpl * lines, Len(pf.data))
         IN [buffer |-> IF start >= Len(pf.data) THEN << >>
                        ELSE SubSeq(pf.data, start + 1, end),
             stderr |-> None]
    ELSE read_file_chunk(f, offset, bpl, lines, io)

\* parsers/mod.rs:31-45, with what the fetch wrote to stderr.
get_chunk(pf, f, offset, bpl, lines, io) ==
    IF pf.kind = "Generic"
    THEN LET start == offset * bpl
             end == Min(start + bpl * lines, Len(pf.data))
         IN [buffer |-> IF start >= Len(pf.data) THEN << >>
                        ELSE SubSeq(pf.data, start + 1, end),
             stderr |-> None]
    ELSE read_file_chunk(f, offset, bpl, lines, io)

\* utils.rs:73-79.
byte_to_displayable(byte) ==
    IF (byte >= 33 /\ byte <= 126) \/ byte = 32 THEN byte ELSE 46

\* One lower-case hexadecimal digit, as {:x} writes it.
lower_hex(v) == IF v < 10 THEN 48 + v ELSE 97 + v - 10

\* {:x}: the digits of n without leading zeros.
RECURSIVE hex_digits(_)
hex_digits(n) ==
    IF n < 16 THEN << lower_hex(n) >>
    ELSE hex_digits(n \div 16) \o << lower_hex(n % 16) >>

\* utils.rs:25-28: "{:08x}: ".
format_address(addr) ==
    LET ds == hex_digits(addr)
    IN [i \in 1 .. saturating_sub(8, Len(ds)) |-> 48] \o ds \o << 58, 32 >>

\* slice::chunks_exact: the chunks of chunk_size elements, without the
\* remainder.
chunks_exact(data, chunk_size) ==
    [i \in 1 .. Len(data) \div chunk_size |->
        SubSeq(data, (i - 1) * chunk_size + 1, i * chunk_size)]

\* slice::chunks (utils.rs:21): the last chunk holds the remainder.
chunks(data, chunk_size) ==
    [i \in 1 .. (Len(data) + chunk_size - 1) \div chunk_size |->
        SubSeq(data, (i - 1) * chunk_size + 1,
               Min(i * chunk_size, Len(data)))]

\* utils.rs:33, 52: whether some match range contains the offset.
is_match(results, global_index) ==
    \E k \in 1 .. Len(results) :
        /\ results[k].start <= global_index
        /\ global_index < results[k].end

\* Addresses counted from the top of the window instead of the file.
start_addr_in_window(offset, bpl) == 0

\* utils.rs:18: the file offset of the first byte of the window.
start_addr(offset, bpl) == offset * bpl

\* utils.rs:11-69: one line per chunk, at most `lines` of them; a line is
\* its address, its hex cells, the padding of a partial line and its ASCII
\* cells, each cell with the colours it is drawn in.
format_hex_dump(data, offset, lines, bpl, results) ==
    LET cs == chunks(data, bpl)
        line(i) ==
            LET chunk == cs[i + 1]
                addr == start_addr(offset, bpl) + i * bpl
            IN [addr |-> addr,
                address |-> format_address(addr),
                hex |-> [j \in 1 .. Len(chunk) |->
                    [text |-> << lower_hex(chunk[j] \div 16),
                                 lower_hex(chunk[j] % 16), 32 >>,
                     style |-> IF is_match(results, addr + j - 1)
                               THEN [fg |-> "Black", bg |-> "Yellow"]
                               ELSE [fg |-> "Cyan", bg |-> "None"]]],
                padding |-> IF Len(chunk) < bpl
                            THEN [k \in 1 .. 3 * (bpl - Len(chunk)) |-> 32]
                            ELSE << >>,
                ascii |-> [j \in 1 .. Len(chunk) |->
                    LET display_char == byte_to_displayable(chunk[j])
                    IN [char |-> display_char,
                        style |-> IF is_match(results, addr + j - 1)
                                  THEN [fg |-> "Black", bg |-> "Yellow"]
                                  ELSE IF display_char = 46
                                  THEN [fg |-> "DarkGray", bg |-> "None"]
                                  ELSE [fg |-> "Green", bg |-> "None"]]]]
    IN [i \in 1 .. Min(Len(cs), lines) |-> line(i - 1)]

\* ui.rs:179-218 on a pane of visible_height lines: an empty window draws
\* the placeholder "No data to display." and no line.
render_content(pf, f, offset, bpl, results, visible_height, io, shown) ==
    LET chunk == get_chunk(pf, f, offset, bpl, visible_height, io)
        data == chunk.buffer
    IN [drawn |-> TRUE,
        height |-> visible_height,
        window |-> data,
        rows |-> IF data = << >> THEN << >>
                 ELSE format_hex_dump(data, offset, visible_height, bpl,
                                      results),
        stderr |-> IF chunk.stderr = None THEN shown.stderr
                   ELSE chunk.stderr]

\* main.rs:105: one draw.  The help replaces the panes (ui.rs:14-59); only a
\* file read lazily does system calls.
Draw(visible_height, io) ==
    /\ running /\ pc = "run_app"
    /\ mode # "Help"
    /\ io # "ok" => parsed_file.kind = "Lazy"
    /\ display' = render_content(parsed_file, file, scroll_offset,
                                 bytes_per_line, search_results,
                                 visible_height, io, display)
    /\ UNCHANGED << file, running, parsed_file, scroll_offset,
                    bytes_per_line, mode, input_buffer, search_results,
                    search_type, file_size, theme, message, pc, terminal >>

\* Files drawn: printable bytes, '.', control bytes and bytes above 0x7e.
DotFile == [head |-> << 65, 46, 0, 200, 32, 126, 127 >>, size |-> 7]

DrawFiles == {EmptyFile, SmallFile, DotFile, LargeFile}

\* A session in Normal mode, fresh or after an ASCII search that found
\* matches, on the first or on the last row.
InitDraw ==
    /\ file \in DrawFiles
    /\ bytes_per_line \in 1 .. MaxWidth
    /\ theme = "Dark"
    /\ running = TRUE
    /\ parsed_file = new_parsed_file(file)
    /\ scroll_offset \in {0, max_scroll_offset(file.size, bytes_per_line)}
    /\ mode = "Normal"
    /\ input_buffer \in {<< >>, << 65 >>, << 46 >>, << 65, 65 >>}
    /\ search_results
          = perform_search(input_buffer, "Ascii", parsed_file, None)
               .search_results
    /\ input_buffer # << >> => search_results # << >>
    /\ search_type = "Ascii"
    /\ file_size = file.size
    /\ message = None
    /\ InLoop

DrawNext ==
    \/ \E h \in 0 .. MaxHeight, io \in {"ok", "seek_failed", "read_failed"} :
          Draw(h, io)
    \/ ScrollUp
    \/ ScrollDown

DrawSpec == InitDraw /\ [][DrawNext]_vars

(***************************************************************************)
(* The byte source at the threshold: sessions on a file of exactly         *)
(* 10 MiB, on one byte more and on small files, in which the view is       *)
(* scrolled, the theme toggled, the help and the offset prompt opened and  *)
(* closed, and the viewer quit.                                            *)
(***************************************************************************)
ThresholdFile == [head |-> << 65, 65 >>, size |-> threshold]

VariantSessions ==
    {[file |-> f, bytes_per_line |-> 16] :
        f \in {EmptyFile, ThresholdFile, LargeFile}}
      \cup {[file |-> f, bytes_per_line |-> w] :
                f \in {SmallFile, DotFile}, w \in {1, 2}}

InitVariant ==
    /\ \E s \in VariantSessions :
          file = s.file /\ bytes_per_line = s.bytes_per_line
    /\ theme = "Dark"
    /\ running = TRUE
    /\ parsed_file = new_parsed_file(file)
    /\ scroll_offset = 0
    /\ mode = "Normal"
    /\ input_buffer = << >>
    /\ search_results = << >>
    /\ search_type = "Ascii"
    /\ file_size = file.size
    /\ message = None
    /\ InLoop

VariantNext ==
    \/ KeyQuit
    \/ ScrollUp
    \/ ScrollDown
    \/ EnterGotoMode
    \/ EnterHelpMode
    \/ ToggleTheme
    \/ LeaveMode

VariantSpec == InitVariant /\ [][VariantNext]_vars

(***************************************************************************)
(* The whole run of main (main.rs:39-98): the terminal is set up, the      *)
(* session is constructed, run_app handles events until the viewer is      *)
(* quit, and the terminal is restored.                                     *)
(***************************************************************************)
\* Paths App::new cannot use: metadata, File::open or the read fails.
MissingFile == [error |-> "No such file or directory"]
UnreadableFile == [error |-> "Permission denied"]

Readable(f) == "size" \in DOMAIN f

\* The command lines of StartSpec.
StartSessions ==
    {[file |-> f, bytes_per_line |-> 16] :
        f \in {MissingFile, UnreadableFile, EmptyFile}}
      \cup {[file |-> f, bytes_per_line |-> w] :
                f \in {SmallFile, DotFile}, w \in {0, 1, 2}}

\* main is entered: the terminal is as the shell left it and there is no
\* App yet (its fields hold the values App::new will give them, running
\* excepted).
InitStart ==
    /\ \E s \in StartSessions :
          file = s.file /\ bytes_per_line = s.bytes_per_line
    /\ theme \in {"Light", "Dark"}
    /\ running = FALSE
    /\ parsed_file = [kind |-> "None", data |-> << >>]
    /\ scroll_offset = 0
    /\ mode = "Normal"
    /\ input_buffer = << >>
    /\ search_results = << >>
    /\ search_type = "Ascii"
    /\ file_size = 0
    /\ message = None
    /\ pc = "main"
    /\ terminal = Cooked
    /\ display = Blank

AppUnchanged ==
    UNCHANGED << file, running, parsed_file, scroll_offset, bytes_per_line,
                 mode, input_buffer, search_results, search_type, file_size,
                 theme, message, display >>

\* main.rs:62: enable_raw_mode()?.
EnableRawMode(ok) ==
    /\ pc = "main"
    /\ IF ok
       THEN terminal' = [terminal EXCEPT !.raw_mode = TRUE]
               /\ pc' = "raw_mode"
       ELSE terminal' = terminal /\ pc' = "exit"
    /\ AppUnchanged

\* main.rs:64: execute!(stdout, EnterAlternateScreen, EnableMouseCapture)?;
\* the second command is not run when the first fails.
EnterScreen(done) ==
    /\ pc = "raw_mode"
    /\ terminal' = [terminal EXCEPT !.alternate_screen = done >= 1,
                                    !.mouse_capture = done >= 2]
    /\ pc' = IF done = 2 THEN "screen" ELSE "exit"
    /\ AppUnchanged

\* main.rs:65-66: Terminal::new(backend)?.
TerminalNew(ok) ==
    /\ pc = "screen"
    /\ pc' = IF ok THEN "terminal" ELSE "exit"
    /\ terminal' = terminal
    /\ AppUnchanged

\* main.rs:69-78: App::new; when it fails the terminal is restored and main
\* returns the error.
NewApp ==
    /\ pc = "terminal"
    /\ IF Readable(file)
       THEN /\ running' = TRUE
            /\ parsed_file' = new_parsed_file(file)
            /\ file_size' = file.size
            /\ pc' = "draw"
            /\ terminal' = terminal
            /\ display' = display
       ELSE /\ terminal' = Cooked
            /\ pc' = "exit"
            /\ display' = [display EXCEPT
                              !.stderr = "Failed to initialize application"]
            /\ UNCHANGED << running, parsed_file, file_size >>
    /\ UNCHANGED << file, scroll_offset, bytes_per_line, mode, input_buffer,
                    search_results, search_type, theme, message >>

\* main.rs:104-105, ui.rs:132-133: the first draw of run_app.  The status
\* line divides by bytes_per_line; on a row width of 0 it panics, the panic
\* hook (main.rs:41-46) restores the terminal and the process ends.
FirstDraw(visible_height) ==
    /\ pc = "draw" /\ running
    /\ IF bytes_per_line = 0
       THEN /\ terminal' = Cooked
            /\ pc' = "exit"
            /\ display' = [display EXCEPT !.stderr = "Application panicked"]
       ELSE /\ terminal' = terminal
            /\ pc' = "run_app"
            /\ display' = render_content(parsed_file, file, scroll_offset,
                                         bytes_per_line, search_results,
                                         visible_height, "ok", display)
    /\ UNCHANGED << file, running, parsed_file, scroll_offset,
                    bytes_per_line, mode, input_buffer, search_results,
                    search_type, file_size, theme, message >>

\* main.rs:105-108, 81-96: a draw, poll or read that fails ends run_app
\* with the error; main restores the terminal and prints the error.
LoopError ==
    /\ Handling
    /\ terminal' = Cooked
    /\ pc' = "exit"
    /\ display' = [display EXCEPT !.stderr = "Error"]
    /\ UNCHANGED << file, running, parsed_file, scroll_offset,
                    bytes_per_line, mode, input_buffer, search_results,
                    search_type, file_size, theme, message >>

\* main.rs:84-90: after run_app the terminal is restored.
RestoreTerminal ==
    /\ pc = "run_app" /\ ~running
    /\ terminal' = Cooked
    /\ pc' = "exit"
    /\ AppUnchanged

StartNext ==
    \/ \E ok \in BOOLEAN : EnableRawMode(ok)
    \/ \E done \in 0 .. 2 : EnterScreen(done)
    \/ \E ok \in BOOLEAN : TerminalNew(ok)
    \/ NewApp
    \/ \E h \in 0 .. MaxHeight : FirstDraw(h)
    \/ \E h \in 0 .. MaxHeight : Draw(h, "ok")
    \/ LoopError
    \/ KeyQuit
    \/ ScrollUp
    \/ ScrollDown
    \/ RestoreTerminal

StartSpec == InitStart /\ [][StartNext]_vars

(***************************************************************************)
(* Recoverable conditions: sessions in which queries and offsets are typed *)
(* and submitted, the panes are drawn between the events, with reads that  *)
(* may fail, and the viewer is quit.                                       *)
(***************************************************************************)
\* The keys typed: '1' and '+'.
RecoverKeys == {49, 43}

InitRecover ==
    /\ \E s \in {[file |-> SmallFile, bytes_per_line |-> 2],
                  [file |-> LargeFile, bytes_per_line |-> 16]} :
          file = s.file /\ bytes_per_line = s.bytes_per_line
    /\ theme = "Dark"
    /\ running = TRUE
    /\ parsed_file = new_parsed_file(file)
    /\ scroll_offset = 0
    /\ mode = "Normal"
    /\ input_buffer = << >>
    /\ search_results = << >>
    /\ search_type = "Ascii"
    /\ file_size = file.size
    /\ message = None
    /\ InLoop

\* The terminal keeps its size: every draw has MaxHeight lines.
RecoverNext ==
    \/ \E stype \in {"Ascii", "Hex"} : EnterSearchMode(stype)
    \/ EnterGotoMode
    \/ \E c \in RecoverKeys : TypeChar(c)
    \/ SubmitSearch
    \/ SubmitGoto
    \/ \E io \in {"ok", "seek_failed", "read_failed"} : Draw(MaxHeight, io)
    \/ KeyQuit

RecoverSpec == InitRecover /\ [][RecoverNext]_vars

(***************************************************************************)
(* Notions the properties below are stated with.                           *)
(***************************************************************************)
\* The query a submitted search strips of its spaces in hex mode.
QueryText(buffer, stype) ==
    IF stype = "Hex" THEN replace_spaces(buffer) ELSE buffer

\* A submitted query is valid when it is not empty and, in hex mode, is an
\* even number of hexadecimal digits once its spaces are removed.
ValidQuery(buffer, stype) ==
    /\ Len(QueryText(buffer, stype)) > 0
    /\ stype = "Hex" => hex_decode(QueryText(buffer, stype)).ok

\* The bytes a valid query stands for.
PatternOf(buffer, stype) ==
    IF stype = "Hex" THEN hex_decode(QueryText(buffer, stype)).bytes
    ELSE as_bytes(buffer)

\* Whether pattern pat occurs somewhere in file f.  No typed pattern of the
\* model holds a zero byte, so every occurrence lies within the head.
OccursInFile(f, pat) ==
    \E i \in 0 .. Len(f.head) : OccursAt(f.head, pat, i)

\* The ranges from and to in a list of ranges.
RangeSeqOk(rs, size) ==
    /\ \A i \in 1 .. Len(rs) :
          /\ 0 <= rs[i].start
          /\ rs[i].start < rs[i].end
          /\ rs[i].end <= size
    /\ \A i \in 1 .. Len(rs) - 1 : rs[i].end <= rs[i + 1].start

\* rs is exactly the greedy, leftmost-first, non-overlapping occurrences of
\* pat in data.
GreedyLeftmost(data, pat, rs) ==
    LET from(i) == IF i = 1 THEN 0 ELSE rs[i - 1].end
        last == IF rs = << >> THEN 0 ELSE rs[Len(rs)].end
    IN
    /\ \A i \in 1 .. Len(rs) :
          /\ rs[i].end = rs[i].start + Len(pat)
          /\ rs[i].start >= from(i)
          /\ OccursAt(data, pat, rs[i].start)
          /\ \A j \in from(i) .. rs[i].start - 1 : ~OccursAt(data, pat, j)
    /\ \A j \in last .. Len(data) : ~OccursAt(data, pat, j)

(***************************************************************************)
(* The properties.                                                         *)
(***************************************************************************)
\* C1: in every reachable state the row index is within its bounds,
\* 0 <= scroll_offset <= max_scroll_offset(), the bound being computed from
\* the file's size and the row width of the session.
C1_ScrollOffsetInRange ==
    /\ 0 <= scroll_offset
    /\ scroll_offset <= max_scroll_offset(file_size, bytes_per_line)
    /\ file_size = file.size

\* C1 witness: a jump to an offset past the end of a file of several rows
\* has been clamped to the last row.
C1_Witness ==
    /\ mode = "Normal"
    /\ from_str_radix(input_buffer).ok
    /\ from_str_radix(input_buffer).value >= file_size
    /\ max_scroll_offset(file_size, bytes_per_line) > MaxRow + 1
    /\ scroll_offset = max_scroll_offset(file_size, bytes_per_line)

\* C2: in every reachable state each range of search_results is a half-open
\* interval with start < end <= file_size, and the ranges are in ascending
\* order without overlap.
C2_RangesOrderedDisjoint == RangeSeqOk(search_results, file_size)

\* C2 witness: a search has found several adjacent matches.
C2_Witness ==
    /\ Len(search_results) >= 3
    /\ search_results[2].start = search_results[1].end

\* C3: a search of an in-memory buffer for a valid, non-empty pattern leaves
\* exactly the greedy leftmost-first non-overlapping occurrences of the
\* pattern in search_results.
C3_SearchIsGreedyLeftmost ==
    [][(SubmitSearch /\ parsed_file.kind = "Generic"
           /\ ValidQuery(input_buffer, search_type))
        => GreedyLeftmost(parsed_file.data,
                          PatternOf(input_buffer, search_type),
                          search_results')]_vars

\* C3 witness: "AAAABAAAAB" has been searched for "AAAA" and the matches are
\* [0,4) and [5,9).
C3_Witness ==
    /\ mode = "Normal" /\ search_type = "Ascii"
    /\ parsed_file.kind = "Generic"
    /\ parsed_file.data = << 65, 65, 65, 65, 66, 65, 65, 65, 65, 66 >>
    /\ input_buffer = << 65, 65, 65, 65 >>
    /\ search_results = << [start |-> 0, end |-> 4], [start |-> 5, end |-> 9] >>

\* C4 (as claimed): a search of a lazily loaded file gives the match ranges
\* the same search gives on the same content held in memory.
C4_LazySearchAsInMemory ==
    [][(SubmitSearch /\ ValidQuery(input_buffer, search_type))
        => search_results' =
              scan(file.head, PatternOf(input_buffer, search_type), 0, << >>)]_vars

\* C5 (as claimed): a hex search whose query has an odd number of digits or
\* a character that is no hex digit leaves no matches and the "invalid hex"
\* message.
C5_InvalidHexReported ==
    [][(SubmitSearch /\ search_type = "Hex"
           /\ Len(QueryText(input_buffer, search_type)) > 0
           /\ ~ValidQuery(input_buffer, search_type))
        => (search_results' = << >> /\ message' = MsgInvalidHex)]_vars

\* C6 (as claimed): submitting an empty query (in hex mode, empty once the
\* spaces are removed) clears the matches and sets an "empty query" message.
C6_EmptyQueryReported ==
    [][(SubmitSearch /\ Len(QueryText(input_buffer, search_type)) = 0)
        => (/\ search_results' = << >>
            /\ message' \in {MsgEmptySearch, MsgEmptyHex})]_vars

\* C7: when a search for a valid pattern that does not occur in the file
\* completes, the match set is empty, the message is "no matches", and the
\* session is still running, back in Normal mode.
C7_NoMatchesReported ==
    [][(SubmitSearch /\ ValidQuery(input_buffer, search_type)
           /\ ~OccursInFile(file, PatternOf(input_buffer, search_type)))
        => (/\ search_results' = << >>
            /\ message' = MsgNoMatches
            /\ running'
            /\ mode' = "Normal")]_vars

\* C7 witness: a search of a file held in memory for a valid pattern that
\* does not occur in it has just reported "no matches".
C7_Witness ==
    /\ running /\ mode = "Normal"
    /\ parsed_file.kind = "Generic" /\ file_size > 0
    /\ ValidQuery(input_buffer, search_type)
    /\ ~OccursInFile(file, PatternOf(input_buffer, search_type))
    /\ search_results = << >>
    /\ message = MsgNoMatches

\* C8 (as claimed): after any submitted search search_results is the result
\* of that search alone: the occurrences of the new pattern, and nothing
\* for a query that is empty or invalid.
C8_ResultsReplacedWholesale ==
    [][SubmitSearch
        => search_results' =
              IF ValidQuery(input_buffer, search_type)
              THEN scan(data_of(parsed_file),
                        PatternOf(input_buffer, search_type), 0, << >>)
              ELSE << >>]_vars

\* C9: submitting an offset text that parses as a base-16 unsigned integer
\* sets scroll_offset to min(offset / bytes_per_line, max_scroll_offset());
\* the row holds the offset when the offset is inside the file and is the
\* last row otherwise, and no message is set.
C9_JumpLandsOnRow ==
    [][(SubmitGoto /\ from_str_radix(input_buffer).ok)
        => LET offset == from_str_radix(input_buffer).value
               max == max_scroll_offset(file_size, bytes_per_line)
               row_start == scroll_offset' * bytes_per_line
           IN /\ scroll_offset' = Min(offset \div bytes_per_line, max)
              /\ offset < file_size
                    => (row_start <= offset
                        /\ offset < row_start + bytes_per_line)
              /\ offset >= file_size => scroll_offset' = max
              /\ message' = None]_vars

\* C9 witness: a jump has landed on a row in the middle of the file, which
\* no scroll event of the model reaches, and the row holds the offset.
C9_Witness ==
    /\ mode = "Normal" /\ message = None
    /\ from_str_radix(input_buffer).ok
    /\ from_str_radix(input_buffer).value < file_size
    /\ scroll_offset = from_str_radix(input_buffer).value \div bytes_per_line
    /\ ~Explored(scroll_offset - 1) /\ ~Explored(scroll_offset + 1)

\* C10 (as claimed): submitting an offset text that does not parse as a
\* base-16 unsigned integer, the empty text included, leaves scroll_offset
\* unchanged and sets the "invalid offset input" message.
C10_InvalidOffsetReported ==
    [][(SubmitGoto /\ ~from_str_radix(input_buffer).ok)
        => (scroll_offset' = scroll_offset
            /\ message' = MsgInvalidOffset)]_vars

\* The navigation actions that succeed: a scroll event handled in Normal
\* mode, or the submission of an offset text that parses.
Navigated ==
    \/ ScrollUp
    \/ ScrollDown
    \/ SubmitGoto /\ from_str_radix(input_buffer).ok

\* The keys of Normal mode that change the mode or the theme.
ModeKey ==
    \/ \E stype \in {"Ascii", "Hex"} : EnterSearchMode(stype)
    \/ EnterGotoMode
    \/ EnterHelpMode
    \/ ToggleTheme

\* C11 (as claimed): after every navigation action that succeeds the message
\* slot is None, and a message that is showing stays until such an action
\* clears it or another condition overwrites it.
C11_MessageStaysUntilNavigation ==
    [][/\ Navigated => message' = None
       /\ (message # None /\ message' # message)
             => (Navigated \/ message' # None)]_vars

\* C11 (amended): after every navigation action that succeeds the message
\* slot is None; a message that is showing is never overwritten by another
\* one, and it is cleared exactly by the next scroll event or mode key ('/',
\* 'x', ':', 'h', 't') handled in Normal mode.
C11_MessageClearedByNavigationOrModeKey ==
    [][/\ Navigated => message' = None
       /\ (message # None /\ message' # message)
             => (message' = None /\ (ScrollUp \/ ScrollDown \/ ModeKey))
       /\ (message # None /\ (ScrollUp \/ ScrollDown \/ ModeKey))
             => message' = None]_vars

\* C11 witness: a failed jump has left its message on a row from which a
\* scroll up moves.
C11_Witness ==
    /\ running /\ mode = "Normal"
    /\ message = MsgInvalidOffset
    /\ ~from_str_radix(input_buffer).ok
    /\ scroll_offset > 0

\* The rows of a file of size bytes at row width width: the row indices
\* that hold at least one byte.
RowsOf(size, width) == {o \div width : o \in 0 .. size - 1}

\* ceil(a / b) for a >= 0 and b > 0: the least q with q * b >= a.
CeilDiv(a, b) == CHOOSE q \in 0 .. a : q * b >= a /\ (q = 0 \/ (q - 1) * b < a)

\* C12: for every row width > 0 and every file size, max_scroll_offset() is
\* ceil(file_size / bytes_per_line) - 1, the number of full or partial rows
\* minus one, when the file is not empty, and 0 when it is empty.
C12_MaxScrollOffsetIsLastRow ==
    LET max == max_scroll_offset(file_size, bytes_per_line) IN
    /\ bytes_per_line > 0 /\ file_size >= 0
    /\ file_size = 0 => max = 0
    /\ file_size > 0 =>
          /\ max = CeilDiv(file_size, bytes_per_line) - 1
          /\ max = Cardinality(RowsOf(file_size, bytes_per_line)) - 1

\* C12 witness: the view has been scrolled to the last row of a file of
\* several full rows, whose size is a multiple of the row width.
C12_Witness ==
    /\ file_size > bytes_per_line /\ bytes_per_line > 1
    /\ file_size % bytes_per_line = 0
    /\ scroll_offset = max_scroll_offset(file_size, bytes_per_line)
    /\ (scroll_offset + 1) * bytes_per_line = file_size

\* C13: from every valid row above the first, scroll_up then scroll_down
\* returns to the row; from every valid row before the last, scroll_down then
\* scroll_up returns to it; on the first row scroll_up, and on the last row
\* scroll_down, changes nothing.
C13_ScrollRoundTrip ==
    LET max == max_scroll_offset(file_size, bytes_per_line)
        up(s) == scroll_up(s)
        down(s) == scroll_down(s, file_size, bytes_per_line)
    IN
    /\ scroll_offset > 0 =>
          (up(scroll_offset) = scroll_offset - 1
           /\ down(up(scroll_offset)) = scroll_offset)
    /\ scroll_offset < max =>
          (down(scroll_offset) = scroll_offset + 1
           /\ up(down(scroll_offset)) = scroll_offset)
    /\ scroll_offset = 0 => up(scroll_offset) = 0
    /\ scroll_offset = max => down(scroll_offset) = max

\* C13 witness: the view has been scrolled to a row with rows on both sides.
C13_Witness ==
    /\ scroll_offset > 0
    /\ scroll_offset < max_scroll_offset(file_size, bytes_per_line)

\* C14: for every text b typed as an ASCII query, a hex search for any hex
\* encoding of b's bytes (digits in either case, with or without spaces
\* between them) gives the match set and the message an ASCII search for b
\* gives on the same buffer.
C14_HexSearchAsAsciiSearch ==
    (search_type = "Ascii" /\ Len(input_buffer) > 0)
        => \A h \in HexEncodings(input_buffer) :
              perform_search(h, "Hex", parsed_file, None)
                  = perform_search(input_buffer, "Ascii", parsed_file, None)

\* C14 witness: the hex search "4 a" has found the 'J's of "JJJ", the
\* matches an ASCII search for "J" finds.
C14_Witness ==
    /\ mode = "Normal" /\ search_type = "Hex"
    /\ input_buffer = << 52, 32, 97 >>
    /\ parsed_file.data = << 74, 74, 74 >>
    /\ Len(search_results) = 3
    /\ search_results = scan(parsed_file.data, << 74 >>, 0, << >>)
    /\ message = None

\* The bytes of the file at offsets from .. to - 1.
FileSlice(f, from, to) == [i \in 1 .. to - from |-> FileByte(f, from + i - 1)]

\* C15: a fetch from a source held in memory returns exactly the bytes
\* data[start..end) with start = row index * row width and end = min(start +
\* row width * row count, file size), the empty sequence without an error
\* when start >= file size, and leaves the source buffer unchanged.
C15_FetchWindowInMemory ==
    [][(display' # display /\ parsed_file.kind = "Generic") =>
          LET start == scroll_offset * bytes_per_line
              end == Min(start + bytes_per_line * display'.height, file_size)
          IN /\ start < file_size
                   => display'.window = FileSlice(file, start, end)
             /\ start >= file_size => display'.window = << >>
             /\ display'.stderr = display.stderr
             /\ parsed_file' = parsed_file /\ file' = file]_vars

\* C15 witness: the second row of the 5-byte file at width 3, drawn on two
\* lines: the window ends with the file.
C15_Witness ==
    /\ parsed_file.kind = "Generic" /\ file = SmallFile
    /\ bytes_per_line = 3 /\ scroll_offset = 1
    /\ display.drawn /\ display.height = 2
    /\ display.window = << 17, 49 >>

\* A draw of a file read lazily whose seek or read failed: nothing fetched
\* where a read that succeeds returns at least one byte.
FetchFailed ==
    /\ parsed_file.kind = "Lazy"
    /\ display' # display
    /\ display'.height > 0
    /\ scroll_offset * bytes_per_line < file_size
    /\ display'.window = << >>

\* C16: when a seek or read fails during a window fetch on a file read
\* lazily, the fetch returns no bytes, scroll_offset and search_results are
\* unchanged, the session keeps running, and the failure is recorded in the
\* session's message.
C16_FetchFailureReported ==
    [][FetchFailed =>
          /\ display'.rows = << >>
          /\ scroll_offset' = scroll_offset
          /\ search_results' = search_results
          /\ running'
          /\ message' # None]_vars

\* C17: the byte source is chosen once at session start, read lazily exactly
\* when the file is larger than 10 MiB and held in memory otherwise (a file
\* of exactly 10 MiB included), and no event changes the choice.
C17_VariantChosenOnce ==
    /\ [](parsed_file.kind
             = IF file_size > 10485760 THEN "Lazy" ELSE "Generic")
    /\ [][parsed_file'.kind = parsed_file.kind]_vars

\* C17 witness: a file of one byte more than 10 MiB is still read lazily
\* after scrolling, a theme change and with the help open.
C17_Witness ==
    /\ file_size = 10485761
    /\ parsed_file.kind = "Lazy"
    /\ scroll_offset > 0 /\ theme = "Light" /\ mode = "Help"

\* The width of a row's hex column in characters: three per byte drawn
\* ("xx ") and the padding.
HexColumnWidth(row) ==
    LET RECURSIVE Sum(_)
        Sum(j) == IF j = 0 THEN 0 ELSE Len(row.hex[j].text) + Sum(j - 1)
    IN Sum(Len(row.hex)) + Len(row.padding)

\* C18: formatting a window of n bytes at row width w gives one row per
\* w-sized chunk, ceil(n / w) rows and none for an empty window; a final
\* partial row of k < w bytes has its hex column padded to w byte slots and
\* exactly k characters in its ASCII column.
C18_RowsAndPadding ==
    display.drawn =>
        LET n == Len(display.window)
            w == bytes_per_line
            rows == display.rows
        IN /\ Len(rows) = CeilDiv(n, w)
           /\ n = 0 => rows = << >>
           /\ \A i \in 1 .. Len(rows) :
                 LET k == IF i * w <= n THEN w ELSE n - (i - 1) * w
                 IN /\ Len(rows[i].ascii) = k
                    /\ Len(rows[i].hex) = k
                    /\ HexColumnWidth(rows[i]) = 3 * w
                    /\ \A c \in 1 .. Len(rows[i].padding) :
                          rows[i].padding[c] = 32

\* C18 witness: 7 bytes at width 4 drawn as two rows, the second with 3
\* bytes, one padded slot and 3 ASCII characters.
C18_Witness ==
    /\ bytes_per_line = 4 /\ display.drawn
    /\ Len(display.window) = 7
    /\ Len(display.rows) = 2
    /\ Len(display.rows[2].hex) = 3
    /\ Len(display.rows[2].padding) = 3
    /\ Len(display.rows[2].ascii) = 3

\* The visual class of an ASCII-column cell, by its colours.
VisualClass(cell) ==
    IF cell.style.bg = "Yellow" THEN "matched"
    ELSE IF cell.style.fg = "Green" THEN "printable"
    ELSE "non-printable"

\* The cell of byte j of row i of the pane is drawn as the claim says.
CellAsClaimed(i, j) ==
    LET row == display.rows[i]
        byte == display.window[(i - 1) * bytes_per_line + j]
        cell == row.ascii[j]
        matched == \E k \in 1 .. Len(search_results) :
                      /\ search_results[k].start <= row.addr + j - 1
                      /\ row.addr + j - 1 < search_results[k].end
    IN IF matched THEN VisualClass(cell) = "matched"
       ELSE IF byte >= 32 /\ byte <= 126
       THEN VisualClass(cell) = "printable" /\ cell.char = byte
       ELSE VisualClass(cell) = "non-printable" /\ cell.char = 46

\* C19: every ASCII-column cell has one of three visual classes: matched if
\* a match range contains the byte's offset; otherwise printable, drawn as
\* itself, if the byte is 0x20..0x7e; otherwise non-printable, drawn as '.'.
C19_ThreeVisualClasses ==
    display.drawn =>
        \A i \in 1 .. Len(display.rows) :
            \A j \in 1 .. Len(display.rows[i].ascii) : CellAsClaimed(i, j)

\* The same, leaving the cells of the byte 0x2e ('.') aside.
C19_ExceptDot ==
    display.drawn =>
        \A i \in 1 .. Len(display.rows) :
            \A j \in 1 .. Len(display.rows[i].ascii) :
                display.window[(i - 1) * bytes_per_line + j] # 46
                    => CellAsClaimed(i, j)

\* C20: when the session cannot start because the file does not exist or
\* cannot be read, the program never enters the interactive loop and never
\* alters the terminal: raw mode, the alternate screen and mouse capture are
\* never enabled in that run.
C20_FailedStartLeavesTerminalAlone ==
    ~Readable(file) =>
        /\ pc # "run_app"
        /\ ~terminal.raw_mode
        /\ ~terminal.alternate_screen
        /\ ~terminal.mouse_capture

\* C21: on every path by which the process exits after the terminal was put
\* into raw mode or the alternate screen (quit, an error of the event loop,
\* a failed App::new, a failed later set-up step, a panic), raw mode is
\* disabled and the alternate screen is left before the exit.
C21_TerminalRestoredAtExit ==
    pc = "exit" => (~terminal.raw_mode /\ ~terminal.alternate_screen)

\* The same, for the runs in which the terminal set-up did not fail.
C21_RestoredAfterSetUp ==
    (pc = "exit" /\ (running \/ display.stderr # None \/ display.drawn))
        => terminal = Cooked

\* A submitted query or offset that meets a recoverable condition: an empty
\* or invalid query, no match, or a text that is no offset.
SubmitRejected ==
    \/ SubmitSearch /\ (Len(input_buffer) = 0 \/ search_results' = << >>)
    \/ SubmitGoto /\ ~from_str_radix(input_buffer).ok

\* The session ends by the quit key in Normal mode and in no other way.
QuitOnlyByKey == (running /\ ~running') => (KeyQuit /\ mode = "Normal")

\* C22: no recoverable condition (invalid hex query, empty query, invalid
\* offset text, zero matches, failed windowed fetch) ends the session: after
\* any of them running is still true, the mode is Normal and the event loop
\* continues; running becomes false only by the quit key in Normal mode.
C22_RecoverableKeepsSessionInNormal ==
    [][/\ (SubmitRejected \/ FetchFailed)
             => (running' /\ mode' = "Normal" /\ pc' = "run_app")
       /\ QuitOnlyByKey]_vars

\* C22, amended: a rejected query or offset leaves the session running in
\* Normal mode; a failed windowed fetch leaves it running in the mode the
\* draw found it in; running becomes false only by the quit key in Normal
\* mode.
C22_RecoverableKeepsSession ==
    [][/\ SubmitRejected => (running' /\ mode' = "Normal" /\ pc' = "run_app")
       /\ FetchFailed => (running' /\ mode' = mode /\ pc' = "run_app")
       /\ QuitOnlyByKey]_vars

\* C22 witness: on a file read lazily, after the hex search prompt was
\* used, a fetch has failed while an offset was being typed, and the session
\* is running at the prompt.
C22_Witness ==
    /\ running /\ pc = "run_app"
    /\ parsed_file.kind = "Lazy"
    /\ mode = "Goto" /\ input_buffer = << 43 >>
    /\ search_type = "Hex"
    /\ display.drawn /\ display.window = << >>
    /\ display.stderr = "Error reading from file"

\* C23: for every startup input the program accepts, bytes_per_line is a
\* positive integer in every session state, so that max_scroll_offset,
\* jump_to_offset and the status line never divide by zero.
C23_RowWidthPositive ==
    running => (bytes_per_line > 0 /\ display.stderr # "Application panicked")

\* No event changes bytes_per_line.
C23_RowWidthFixed == [][bytes_per_line' = bytes_per_line]_vars

\* Whether a cell is drawn in the colours of a match.
DrawnMatched(cell) == cell.style = [fg |-> "Black", bg |-> "Yellow"]

\* C24: highlighting is keyed on absolute file offsets: at every
\* scroll_offset at which the byte at file offset o is visible, it is drawn
\* as matched, in the hex and in the ASCII column, exactly when some range
\* of search_results contains o.
C24_HighlightByFileOffset ==
    [][display' # display =>
          \A i \in 1 .. Len(display'.rows) :
              \A j \in 1 .. Len(display'.rows[i].hex) :
                  LET o == (scroll_offset + i - 1) * bytes_per_line + j - 1
                      b == FileByte(file, o)
                      hit == \E k \in 1 .. Len(search_results) :
                                /\ search_results[k].start <= o
                                /\ o < search_results[k].end
                      row == display'.rows[i]
                  IN /\ o < file_size
                     /\ row.hex[j].text
                           = << HexDigit(b \div 16, FALSE),
                                HexDigit(b % 16, FALSE), 32 >>
                     /\ DrawnMatched(row.hex[j]) <=> hit
                     /\ DrawnMatched(row.ascii[j]) <=> hit]_vars

\* C24 witness: after the search "A" in the file "AAA", 0x11, "1", the
\* second row (offsets 2 and 3) is drawn with its 'A' matched and the byte
\* 0x11 not.
C24_Witness ==
    /\ file = SmallFile /\ bytes_per_line = 2 /\ scroll_offset = 1
    /\ input_buffer = << 65 >> /\ Len(search_results) = 3
    /\ display.drawn /\ Len(display.rows) > 0
    /\ display.rows[1].addr = 2
    /\ DrawnMatched(display.rows[1].hex[1])
    /\ DrawnMatched(display.rows[1].ascii[1])
    /\ ~DrawnMatched(display.rows[1].hex[2])
    /\ ~DrawnMatched(display.rows[1].ascii[2])

\* C25: perform_search terminates for every query text, either search type
\* and every buffer held in memory: the pattern is not empty when the scan
\* loop runs, the scan position strictly increases with each recorded match
\* and stays within the buffer, and at most len(data) / len(pattern) matches
\* are recorded.
C25_SearchTerminates ==
    LET q == query_bytes(input_buffer, search_type)
        data == data_of(parsed_file)
        n == Len(q.bytes)
    IN q.scans =>
          /\ n > 0
          /\ \A pos \in 0 .. Len(data) :
                LET idx == find_bytes(SubSeq(data, pos + 1, Len(data)),
                                      q.bytes)
                IN (pos + n <= Len(data) /\ idx # -1)
                      => /\ next_pos(pos + idx, pos + idx + n) > pos
                         /\ next_pos(pos + idx, pos + idx + n) <= Len(data)
          /\ Len(scan(data, q.bytes, 0, << >>)) * n <= Len(data)

\* C25 witness: the hex search "1 1" of the file "AAA", 0x11, "1" has ended
\* with its one match.
C25_Witness ==
    /\ mode = "Normal" /\ search_type = "Hex"
    /\ input_buffer = << 49, 32, 49 >>
    /\ parsed_file.data = << 65, 65, 65, 17, 49 >>
    /\ search_results = << [start |-> 3, end |-> 4] >>

\* C26: searching and navigating leave each other's state alone: a submitted
\* search, whatever its outcome, leaves scroll_offset unchanged, and a scroll
\* up, a scroll down and a jump to an offset, successful or not, leave
\* search_results unchanged, so that the match ranges persist until the next
\* submitted search.
C26_SearchAndNavigationIndependent ==
    [][/\ SubmitSearch => scroll_offset' = scroll_offset
       /\ (ScrollUp \/ ScrollDown \/ SubmitGoto)
             => search_results' = search_results
       /\ search_results' # search_results => SubmitSearch]_vars

\* C26 witness: the three matches of the search "A" are held on the last row
\* of the 5-byte file, away from the row of any of them but the last.
C26_Witness ==
    /\ mode = "Normal" /\ search_type = "Ascii"
    /\ file = SmallFile /\ bytes_per_line = 2
    /\ input_buffer = << 65 >>
    /\ Len(search_results) = 3
    /\ scroll_offset = 2

====
